---- MODULE Spec2Model ----
(***************************************************************************)
(* Model of the kp crawler:                                                *)
(*   - KpArticlesSpider.parse_list  (src/kp/spiders/kp_articles.py), the   *)
(*     "Показать еще" pagination loop over a live Playwright page;         *)
(*   - PhotoDownloaderPipeline and MongoPipeline (src/kp/pipelines.py),    *)
(*     the two item pipeline stages, in the order of ITEM_PIPELINES.       *)
(*                                                                         *)
(* Python strings that the code takes apart (hrefs) are sequences of       *)
(* one-character strings; None is the string "None"; the empty Python      *)
(* string is "" (or << >> for an href).                                    *)
(***************************************************************************)
EXTENDS Integers, Sequences, FiniteSets, Bags, TLC

\* ------------------------------------------------------------------ bounds
\* Largest value of the spider argument `limit` (self.posts_limit).
MaxLimit == 2
\* Largest number of matching anchors the listing page shows at once.
MaxDom == 2
\* KpArticlesSpider.MAX_SHOW_MORE_CLICKS, scaled down from 10000.
MAX_SHOW_MORE_CLICKS == 3
\* KpArticlesSpider.STALL_LIMIT, scaled down from 10.
STALL_LIMIT == 2
\* Largest number of items handed to the item pipeline in one behaviour.
MaxItems == 3
\* Number of crawler processes writing to the same collection at once.
MaxWriters == 2
\* Largest number of items suspended in the photo download at once
\* (settings.py lets up to CONCURRENT_REQUESTS = 8 responses be in flight).
MaxParked == 1
\* Longest string handed to clean_text on its own.
MaxStrLen == 5

\* ------------------------------------------------------- strings and hrefs
\* The values of e.href the page may show for a[href*='/online/news/'].
RawHrefs ==
    { <<"a">>, <<"a", "?", "x">>, <<" ", "b">>, <<"", "c", "\r">>, <<"?", "x">> }

\* A character that Python's \s and str.strip() take for whitespace:
\* the space, TAB, LF, CR, FF, then (written as the characters themselves)
\* VT U+000B, FS U+001C, GS U+001D, RS U+001E, US U+001F, NEL U+0085,
\* NBSP U+00A0 and U+1680. The remaining Unicode spaces (U+2000 to U+200A,
\* U+2028, U+2029, U+202F, U+205F, U+3000) are whitespace to Python as
\* well; the parser of this language does not accept them in a string.
IsSpace(ch) ==
    ch \in { " ", "\t", "\n", "\r", "\f",
             "", "", "", "", "", "", " ", " " }

\* A character that XPath 1.0 takes for whitespace: space, TAB, LF and CR.
IsXmlSpace(ch) == ch \in {" ", "\t", "\n", "\r"}

\* str.split("?")[0]: the part before the first "?".
RECURSIVE SplitFirst(_)
SplitFirst(u) ==
    IF u = << >> THEN << >>
    ELSE IF Head(u) = "?" THEN << >>
    ELSE <<Head(u)>> \o SplitFirst(Tail(u))

RECURSIVE LStrip(_)
LStrip(s) ==
    IF s = << >> THEN << >>
    ELSE IF IsSpace(Head(s)) THEN LStrip(Tail(s))
    ELSE s

RECURSIVE RStrip(_)
RStrip(s) ==
    IF s = << >> THEN << >>
    ELSE IF IsSpace(s[Len(s)]) THEN RStrip(SubSeq(s, 1, Len(s) - 1))
    ELSE s

\* str.strip()
Strip(s) == RStrip(LStrip(s))

\* normalize_url(u) = (u or "").split("?")[0].strip()
normalize_url(u) == Strip(SplitFirst(u))

\* collect_urls_from_dom(): normalise every href, keep the non-empty ones.
RECURSIVE collect_urls_from_dom(_)
collect_urls_from_dom(hrefs) ==
    IF hrefs = << >> THEN << >>
    ELSE LET u == normalize_url(Head(hrefs))
         IN  IF u # << >>
             THEN <<u>> \o collect_urls_from_dom(Tail(hrefs))
             ELSE collect_urls_from_dom(Tail(hrefs))

\* What the page can show: every list of at most MaxDom hrefs.
DomLists == UNION { [1..n -> RawHrefs] : n \in 0..MaxDom }

\* list(dict.fromkeys(q)): q without repeats, first occurrences in order.
RECURSIVE Dedup(_)
Dedup(q) ==
    IF q = << >> THEN << >>
    ELSE LET r == Dedup(SubSeq(q, 1, Len(q) - 1))
             x == q[Len(q)]
         IN  IF \E i \in 1..Len(r) : r[i] = x THEN r ELSE Append(r, x)

\* AddNew with ordered_urls.insert(0, u) in place of ordered_urls.append(u).
RECURSIVE AddNew_Prepend(_, _, _, _)
AddNew_Prepend(s, o, urls, limit) ==
    IF urls = << >> THEN [seen |-> s, ordered |-> o]
    ELSE LET u == Head(urls)
         IN  IF u \notin s
             THEN IF Len(o) + 1 >= limit
                  THEN [seen |-> s \cup {u}, ordered |-> <<u>> \o o]
                  ELSE AddNew_Prepend(s \cup {u}, <<u>> \o o, Tail(urls),
                                      limit)
             ELSE AddNew_Prepend(s, o, Tail(urls), limit)

\* AddNew without the `if len(ordered_urls) >= self.posts_limit: break`.
RECURSIVE AddNew_NoBreak(_, _, _, _)
AddNew_NoBreak(s, o, urls, limit) ==
    IF urls = << >> THEN [seen |-> s, ordered |-> o]
    ELSE LET u == Head(urls)
         IN  IF u \notin s
             THEN AddNew_NoBreak(s \cup {u}, Append(o, u), Tail(urls), limit)
             ELSE AddNew_NoBreak(s, o, Tail(urls), limit)

\* AddNew without the `u not in seen` test.
RECURSIVE AddNew_NoSeenTest(_, _, _, _)
AddNew_NoSeenTest(s, o, urls, limit) ==
    IF urls = << >> THEN [seen |-> s, ordered |-> o]
    ELSE LET u == Head(urls)
         IN  IF Len(o) + 1 >= limit
             THEN [seen |-> s \cup {u}, ordered |-> Append(o, u)]
             ELSE AddNew_NoSeenTest(s \cup {u}, Append(o, u), Tail(urls), limit)

\* The dedup loop of parse_list (initial collection and every round):
\*   for u in urls:
\*       if u not in seen: seen.add(u); ordered_urls.append(u)
\*           if len(ordered_urls) >= self.posts_limit: break
RECURSIVE AddNew(_, _, _, _)
AddNew(s, o, urls, limit) ==
    IF urls = << >> THEN [seen |-> s, ordered |-> o]
    ELSE LET u == Head(urls)
         IN  IF u \notin s
             THEN IF Len(o) + 1 >= limit
                  THEN [seen |-> s \cup {u}, ordered |-> Append(o, u)]
                  ELSE AddNew(s \cup {u}, Append(o, u), Tail(urls), limit)
             ELSE AddNew(s, o, Tail(urls), limit)

\* The yield loop over ordered_urls instead of ordered_urls[: self.posts_limit].
Truncate_NoSlice(o, limit) == o

\* ordered_urls[: self.posts_limit] for a limit >= 0
Truncate(o, limit) == SubSeq(o, 1, IF Len(o) < limit THEN Len(o) ELSE limit)

\* The while condition without `clicks < MAX_SHOW_MORE_CLICKS`.
LoopCond_NoClickCeiling(len, limit, c, s) ==
    len < limit /\ s < STALL_LIMIT

\* The while condition with len(ordered_urls) <= self.posts_limit.
LoopCond_AtMost(len, limit, c, s) ==
    len <= limit /\ c < MAX_SHOW_MORE_CLICKS /\ s < STALL_LIMIT

\* The while condition of the expansion loop:
\*   len(ordered_urls) < self.posts_limit and clicks < MAX_SHOW_MORE_CLICKS
\*   and stalls < STALL_LIMIT
LoopCond(len, limit, c, s) ==
    len < limit /\ c < MAX_SHOW_MORE_CLICKS /\ s < STALL_LIMIT

\* The stall rule without the else branch (stalls never reset).
StallUpdate_NoReset(s, len, prev) == IF len = prev THEN s + 1 ELSE s

\* The stall rule after a round's collection:
\*   if len(ordered_urls) == prev_unique: stalls += 1  else: stalls = 0
StallUpdate(s, len, prev) == IF len = prev THEN s + 1 ELSE 0

\* ------------------------------------------------ the reveal interaction
\* The state of one call of click_show_more_and_wait. `at` is the await the
\* call is suspended at ("returned" once it has left the function); the
\* other fields record how the page answered the awaits already passed:
\* btn.count(), the overlay dismissal, scroll_into_view_if_needed, the
\* window.scrollTo fallback and btn.click each succeed or raise (a timeout
\* is a raise); wait_for_function sees the anchor count change or times out.
\* An await the call has not come to is "skipped"; `probe` is the index of
\* the consent selector being tried.
\* No call of click_show_more_and_wait is under way.
NoAttempt ==
    [at |-> "none", btn |-> "uncalled", overlay |-> "skipped",
     scroll |-> "skipped", scrollTo |-> "skipped", click |-> "skipped",
     wait |-> "skipped", probe |-> 0]

\* The call has started and is suspended at its first await, btn.count().
CallStart == [NoAttempt EXCEPT !.at = "btn.count"]

\* The consent-button selectors try_dismiss_overlays goes through (their
\* Cyrillic button texts are transliterated here).
candidates ==
    << "button:has-text('Prinyat')", "button:has-text('Soglasen')",
       "button:has-text('Soglasitsya')", "button:has-text('OK')" >>

\* for sel in candidates: the pass for the next selector, or, after the
\* last one, the end of try_dismiss_overlays and the await of
\* btn.scroll_into_view_if_needed.
NextCandidate(a) ==
    IF a.probe < Len(candidates)
    THEN [a EXCEPT !.at = "loc.count", !.probe = a.probe + 1]
    ELSE [a EXCEPT !.at = "scroll_into_view_if_needed", !.probe = 0]

\* An overlay call raised: the except clause swallows it.
OverlayErr(a) == [a EXCEPT !.overlay = "err"]

\* The call is suspended at the await a.at: the states it can be in at its
\* next await (or at its return), one for each answer of the page.
Answers(a) ==
    CASE a.at = "btn.count" ->
           { [a EXCEPT !.btn = "err", !.at = "returned"],
             [a EXCEPT !.btn = "absent", !.at = "returned"],
             [a EXCEPT !.btn = "present", !.at = "keyboard.press"] }
      [] a.at = "keyboard.press" ->
           { NextCandidate([a EXCEPT !.overlay = "ok"]),
             NextCandidate(OverlayErr(a)) }
      [] a.at = "loc.count" ->
           { NextCandidate(a),
             NextCandidate(OverlayErr(a)),
             [a EXCEPT !.at = "loc.click"] }
      [] a.at = "loc.click" ->
           { [a EXCEPT !.at = "scroll_into_view_if_needed", !.probe = 0],
             NextCandidate(OverlayErr(a)) }
      [] a.at = "scroll_into_view_if_needed" ->
           { [a EXCEPT !.scroll = "ok", !.at = "btn.click"],
             [a EXCEPT !.scroll = "err", !.at = "scrollTo"] }
      [] a.at = "scrollTo" ->
           { [a EXCEPT !.scrollTo = "ok", !.at = "btn.click"],
             [a EXCEPT !.scrollTo = "err", !.at = "returned"] }
      [] a.at = "btn.click" ->
           { [a EXCEPT !.click = "ok", !.at = "wait_for_function"],
             [a EXCEPT !.click = "err", !.at = "returned"] }
      [] a.at = "wait_for_function" ->
           { [a EXCEPT !.wait = "changed", !.at = "wait_for_timeout"],
             [a EXCEPT !.wait = "timeout", !.at = "wait_for_timeout"] }
      [] a.at = "wait_for_timeout" ->
           { [a EXCEPT !.at = "returned"] }
      [] OTHER -> {}

\* try_dismiss_overlays without its try/except blocks.
try_dismiss_overlays_NoTry(e) ==
    IF e.overlay = "err" THEN "raise" ELSE "dismissed"

\* try_dismiss_overlays(): every failure inside it is swallowed.
try_dismiss_overlays(e) == "dismissed"

\* click_show_more_and_wait without the try/except around wait_for_function:
\* the timeout of the DOM-change wait leaves the function as an error.
click_show_more_and_wait_WaitRaises(e) ==
    IF e.btn = "err" THEN "raise"
    ELSE IF e.btn = "absent" THEN "no_button"
    ELSE IF try_dismiss_overlays(e) # "dismissed" THEN "raise"
    ELSE IF e.scroll = "err" /\ e.scrollTo = "err" THEN "scroll_failed"
    ELSE IF e.click = "err" THEN "click_failed"
    ELSE IF e.wait = "timeout" THEN "raise"
    ELSE "clicked"

\* click_show_more_and_wait(prev_anchor_count), by the return it leaves through:
\*   "no_button"     return False  (btn.count() == 0)
\*   "scroll_failed" return False  (scroll and the scrollTo fallback both raised)
\*   "click_failed"  return False  (btn.click raised)
\*   "clicked"       return True   (the DOM-change wait may have timed out)
\*   "raise"         btn.count() raised: the error leaves parse_list
click_show_more_and_wait(e) ==
    IF e.btn = "err" THEN "raise"
    ELSE IF e.btn = "absent" THEN "no_button"
    ELSE IF try_dismiss_overlays(e) # "dismissed" THEN "raise"
    ELSE IF e.scroll = "err" /\ e.scrollTo = "err" THEN "scroll_failed"
    ELSE IF e.click = "err" THEN "click_failed"
    ELSE "clicked"

\* ------------------------------------------------------- item pipelines
None == "None"

\* Python truthiness of an optional string.
Truthy(v) == v # None /\ v # ""

\* dict.update: the fields of upd over those of old.
Merge(old, upd) ==
    [f \in (DOMAIN old) \cup (DOMAIN upd) |->
        IF f \in DOMAIN upd THEN upd[f] ELSE old[f]]

\* What the network and the image library do for one photo:
\*   "ok"           session.get gives status 200 and a decodable image
\*   "not_200"      session.get gives a status other than 200
\*   "invalid_url"  session.get raises InvalidUrlClientError
\*   "client_error" session.get raises another error (connection, timeout)
\*   "bad_image"    status 200, but Image.open / img.save raises
FetchOutcomes == {"ok", "not_200", "invalid_url", "client_error", "bad_image"}

\* How `await session.get(url)` ends: with a response of status 200 (the
\* body is still to be read), or with one of the outcomes above.
GetAnswers == {"status_200", "not_200", "invalid_url", "client_error"}

\* How `await response.read()` and the compression that follows end.
ReadAnswers == {"ok", "bad_image", "client_error"}

\* The awaits process_item can be suspended at: session.get, response.read
\* and the close of the ClientSession at the exit of the async with block.
PhotoWaits == {"photo_wait", "photo_read", "photo_close"}

\* compress_image(image_content): the JPEG bytes, or the error it raises.
compress_image(f) ==
    IF f = "bad_image" THEN [raised |-> "ImageError", value |-> None]
    ELSE [raised |-> "no", value |-> "jpeg"]

\* base64.b64encode(compressed_bytes).decode("utf-8")
b64encode(bytes) == IF bytes = "jpeg" THEN "b64:jpeg" ELSE "b64"

\* _download_photo_to_base64(url): the returned string, or the error raised.
download_photo_to_base64(f) ==
    IF f = "invalid_url" THEN [raised |-> "InvalidUrlClientError", value |-> None]
    ELSE IF f = "client_error" THEN [raised |-> "ClientError", value |-> None]
    ELSE IF f = "not_200" THEN [raised |-> "no", value |-> ""]
    ELSE LET c == compress_image(f)
         IN  IF c.raised # "no" THEN c
             ELSE [raised |-> "no", value |-> b64encode(c.value)]

\* process_item whose InvalidUrlClientError handler forgets to clear the url.
PhotoProcessItem_KeepUrl(it, f) ==
    IF Truthy(it.header_photo_url)
    THEN LET r == download_photo_to_base64(f)
         IN  IF r.raised = "InvalidUrlClientError"
             THEN [raised |-> "no",
                   item |-> [it EXCEPT !.header_photo_base64 = None]]
             ELSE IF r.raised # "no"
             THEN [raised |-> r.raised, item |-> it]
             ELSE [raised |-> "no",
                   item |-> [it EXCEPT !.header_photo_base64 = r.value]]
    ELSE [raised |-> "no", item |-> [it EXCEPT !.header_photo_base64 = None]]

\* PhotoDownloaderPipeline.process_item(item, spider): the item it returns,
\* or the error that leaves it (f is read only when the url is truthy).
PhotoProcessItem(it, f) ==
    IF Truthy(it.header_photo_url)
    THEN LET r == download_photo_to_base64(f)
         IN  IF r.raised = "InvalidUrlClientError"
             THEN [raised |-> "no",
                   item |-> [it EXCEPT !.header_photo_url = None,
                                       !.header_photo_base64 = None]]
             ELSE IF r.raised # "no"
             THEN [raised |-> r.raised, item |-> it]
             ELSE [raised |-> "no",
                   item |-> [it EXCEPT !.header_photo_base64 = r.value]]
    ELSE [raised |-> "no", item |-> [it EXCEPT !.header_photo_base64 = None]]

\* create_index without unique=True.
create_index_NotUnique == {}

\* open_spider: create_index([("source_url", ASCENDING)], unique=True)
create_index == {"source_url"}

\* collection.insert_one(doc): pymongo first puts a fresh "_id" into doc (in
\* place) when it has none; the server then refuses the document when a
\* unique index already holds its key.
insert_one(coll, doc, oid, uniq) ==
    LET d == IF "_id" \in DOMAIN doc THEN doc
             ELSE Merge(doc, [f \in {"_id"} |-> oid])
        dup == \E x \in coll : \E k \in uniq : x[k] = d[k]
    IN  IF dup THEN [raised |-> "DuplicateKeyError", doc |-> d, coll |-> coll]
        ELSE [raised |-> "no", doc |-> d, coll |-> coll \cup {d}]

\* collection.update_one({"source_url": url}, {"$set": upd}, upsert=True):
\* $set writes the fields of upd into the matched document and keeps its
\* other fields; a $set that would change "_id" is refused (WriteError).
update_one(coll, url, upd) ==
    LET matched == {x \in coll : x.source_url = url}
    IN  IF matched = {}
        THEN [raised |-> "no",
              coll |-> coll \cup {Merge([source_url |-> url], upd)}]
        ELSE LET m == CHOOSE x \in matched :
                          \A y \in matched : x["_id"] <= y["_id"]
             IN  IF "_id" \in DOMAIN upd /\ upd["_id"] # m["_id"]
                 THEN [raised |-> "WriteError", coll |-> coll]
                 ELSE [raised |-> "no",
                       coll |-> (coll \ {m}) \cup {Merge(m, upd)}]

\* MongoPipeline.process_item(item, spider): doc as built before the write,
\* whether insert_one hit the unique index, the error that leaves the call
\* (if any) and the collection afterwards.
MongoProcessItem(coll, it, now, oid, uniq) ==
    LET doc0 == Merge([header_photo_url |-> None,
                       header_photo_base64 |-> None], it)
        doc  == Merge(doc0, [parsed_at_utc |-> now])
        ins  == insert_one(coll, doc, oid, uniq)
    IN  IF ins.raised = "DuplicateKeyError"
        THEN LET upd == update_one(coll, ins.doc.source_url, ins.doc)
             IN  [doc |-> doc, conflict |-> TRUE, raised |-> upd.raised,
                  coll |-> upd.coll]
        ELSE [doc |-> doc, conflict |-> FALSE, raised |-> "no",
              coll |-> ins.coll]

\* ITEM_PIPELINES with the two priorities exchanged.
ITEM_PIPELINES_MongoFirst == [photo |-> 200, mongo |-> 100]

\* settings.ITEM_PIPELINES: stage -> priority; scrapy runs the stages of an
\* item in ascending priority, each on the item the one before returned.
ITEM_PIPELINES == [photo |-> 100, mongo |-> 200]

\* The stages in the order scrapy calls their process_item.
Chain ==
    IF ITEM_PIPELINES.photo < ITEM_PIPELINES.mongo
    THEN <<"photo", "mongo">> ELSE <<"mongo", "photo">>

\* The stage after st, or "stored" when st was the last one.
StageAfter(st) == IF Chain[1] = st THEN Chain[2] ELSE "stored"

\* The fields of a stored document without the store's own "_id".
Body(d) == [f \in (DOMAIN d) \ {"_id"} |-> d[f]]

NoDoc == [f \in {} |-> None]

\* None where a Python str is a sequence of characters.
NoneS == <<"None">>

Writers == 1..MaxWriters
IdleWriter == [pc |-> "idle", doc |-> NoDoc]

NoWrite == [doc |-> NoDoc, conflict |-> FALSE, raised |-> "none"]
Titles == {"t1", "t2"}
PhotoUrls == {None, "img"}

\* ------------------------------------------------- the article extractor
\* Python truthiness of an optional str held as a character sequence.
Falsy(s) == s = NoneS \/ s = << >>

\* a or b
Or(a, b) == IF Falsy(a) THEN b ELSE a

\* re.sub(r"\s\s", " ", s): every pair of whitespace characters becomes one
\* space (the pattern without its `+`).
RECURSIVE CollapseSpaces_Pairs(_)
CollapseSpaces_Pairs(s) ==
    IF s = << >> THEN << >>
    ELSE IF Len(s) >= 2 /\ IsSpace(s[1]) /\ IsSpace(s[2])
         THEN <<" ">> \o CollapseSpaces_Pairs(Tail(Tail(s)))
         ELSE <<Head(s)>> \o CollapseSpaces_Pairs(Tail(s))

\* re.sub(r"\s+", " ", s): every run of whitespace becomes one space.
RECURSIVE CollapseSpaces(_)
CollapseSpaces(s) ==
    IF s = << >> THEN << >>
    ELSE IF IsSpace(Head(s))
         THEN <<" ">> \o CollapseSpaces(LStrip(Tail(s)))
         ELSE <<Head(s)>> \o CollapseSpaces(Tail(s))

\* clean_text(s) = re.sub(r"\s+", " ", (s or "")).strip()
clean_text(s) == Strip(CollapseSpaces(Or(s, << >>)))

\* XPath normalize-space on a string: runs of XPath whitespace become one
\* space, leading and trailing XPath whitespace goes.
RECURSIVE XmlLStrip(_)
XmlLStrip(s) ==
    IF s = << >> THEN << >>
    ELSE IF IsXmlSpace(Head(s)) THEN XmlLStrip(Tail(s))
    ELSE s

RECURSIVE XmlRStrip(_)
XmlRStrip(s) ==
    IF s = << >> THEN << >>
    ELSE IF IsXmlSpace(s[Len(s)]) THEN XmlRStrip(SubSeq(s, 1, Len(s) - 1))
    ELSE s

XmlStrip(s) == XmlRStrip(XmlLStrip(s))

RECURSIVE XmlCollapse(_)
XmlCollapse(s) ==
    IF s = << >> THEN << >>
    ELSE IF IsXmlSpace(Head(s))
         THEN <<" ">> \o XmlCollapse(XmlLStrip(Tail(s)))
         ELSE <<Head(s)>> \o XmlCollapse(Tail(s))

\* XPath normalize-space(//h1).get(): the string value of the first h1 with
\* whitespace collapsed and trimmed, the empty string when there is no h1.
normalize_space(s) == IF s = NoneS THEN << >> ELSE XmlStrip(XmlCollapse(s))

\* str.split / re.split on single-character separators: the pieces between
\* the separators, empty pieces included.
RECURSIVE SplitOn(_, _)
SplitOn(s, seps) ==
    IF s = << >> THEN << << >> >>
    ELSE LET rest == SplitOn(Tail(s), seps)
         IN  IF Head(s) \in seps
             THEN << << >> >> \o rest
             ELSE << <<Head(s)>> \o Head(rest) >> \o Tail(rest)

\* [clean_text(x) for x in q if clean_text(x)]
RECURSIVE CleanAll(_)
CleanAll(q) ==
    IF q = << >> THEN << >>
    ELSE LET c == clean_text(Head(q))
         IN  IF c # << >> THEN <<c>> \o CleanAll(Tail(q))
             ELSE CleanAll(Tail(q))

\* "\n".join(parts)
RECURSIVE JoinLines(_)
JoinLines(parts) ==
    IF parts = << >> THEN << >>
    ELSE IF Len(parts) = 1 THEN Head(parts)
    ELSE Head(parts) \o <<"\n">> \o JoinLines(Tail(parts))

\* The characters of the strings handed to clean_text on its own: two
\* letters, the space, LF, FF, VT (U+000B) and NBSP (U+00A0).
Alphabet == {"a", "b", " ", "\n", "\f", "", " "}

\* The arguments of clean_text: None and every string of at most MaxStrLen
\* characters.
Texts == {NoneS} \cup UNION { [1..n -> Alphabet] : n \in 0..MaxStrLen }

\* What the XPath queries of parse_article find in a response: .get() gives
\* NoneS when nothing matches, .getall() gives a list of text nodes.
Pages ==
    [ url              : { <<"a", "?", "x">> },
      h1               : { NoneS, <<" ">>, <<" ">>, <<"\r", "T">> },
      og_title         : { NoneS, <<"U">> },
      meta_description : { NoneS, <<" ">>, <<"D", " ", "\f", "d">> },
      og_description   : { NoneS, <<"E">> },
      published_time   : { NoneS, << >>, <<"P">> },
      time_datetime    : { NoneS, <<"Q">> },
      og_image         : { NoneS, <<"i">> },
      keywords_meta    : { NoneS, <<" ", ",", " ">>, <<"k", ",", " ", "l">> },
      tag_texts        : { << >>, << <<" ">>, <<"t">> >> },
      author_meta      : { NoneS, <<";">>,
                           <<"A", ",", "B", ";", "A", "&", "C">> },
      author_texts     : { << >>, << <<"A">>, <<"B">>, <<"A">>, <<"C">> >> },
      body_parts       : { << >>, << <<"p">>, <<"\n">>, <<" ", "q">> >> } ]

\* parse_article(response): the KpArticleItem it yields.
parse_article(p) ==
    [ title                |-> clean_text(Or(normalize_space(p.h1), p.og_title)),
      description          |-> clean_text(Or(p.meta_description,
                                             p.og_description)),
      article_text         |-> JoinLines(CleanAll(p.body_parts)),
      publication_datetime |-> clean_text(Or(p.published_time,
                                             p.time_datetime)),
      header_photo_url     |-> Or(clean_text(p.og_image), NoneS),
      header_photo_base64  |-> NoneS,
      keywords             |-> IF ~Falsy(p.keywords_meta)
                               THEN CleanAll(SplitOn(p.keywords_meta, {","}))
                               ELSE CleanAll(p.tag_texts),
      authors              |-> IF ~Falsy(p.author_meta)
                               THEN CleanAll(SplitOn(p.author_meta,
                                                     {",", ";", "&"}))
                               ELSE Dedup(CleanAll(p.author_texts)),
      source_url           |-> SplitFirst(p.url) ]

\* ------------------------------------------------------------------ state
VARIABLES
    pc,                 \* position of the parse_list coroutine
    posts_limit,        \* self.posts_limit
    seen,               \* set of normalised urls
    ordered_urls,       \* list of normalised urls, discovery order
    clicks,
    stalls,
    prev_unique,
    prev_anchor_count,
    ok,                 \* how the last click_show_more_and_wait returned
    current,            \* what the last collect_urls_from_dom() returned
    page_closed,        \* page.close() has been called
    requests,           \* the urls of the scrapy.Request objects yielded
    attempt,            \* the click_show_more_and_wait call under way
    discovered,         \* every url collected from the DOM so far, no repeats
    stage,              \* where the item in the pipeline is
    item,               \* the item in the pipeline (a dict: field -> value)
    fetch,              \* what the fetch of this item's photo has done so far
    collection,         \* the documents of the Mongo collection
    unique_keys,        \* the fields that carry a unique index
    writes,             \* number of MongoPipeline.process_item calls so far
    last_write,         \* the last MongoPipeline.process_item call
    written,            \* the source_url of every item MongoPipeline was given
    passed,             \* the stages that have returned the item in the pipeline
    parked,             \* the bag of items suspended at an await of the
                        \* photo stage, each with the await it is at
    wr,                 \* per concurrent writer: position in process_item, doc
    page,               \* the article response handed to parse_article
    record,             \* the item parse_article yields for page
    raw_text,           \* a string handed to clean_text
    cleaned,            \* clean_text(raw_text)
    recleaned           \* clean_text(cleaned)

hvars == <<pc, posts_limit, seen, ordered_urls, clicks, stalls, prev_unique,
           prev_anchor_count, ok, current, page_closed, requests, attempt,
           discovered>>

pvars == <<stage, item, fetch, collection, unique_keys, writes, last_write,
           written, passed, parked>>

xvars == <<wr, page, record, raw_text, cleaned, recleaned>>

vars == <<hvars, pvars, xvars>>

\* The variables of the other runs, at rest.
XIdle ==
    /\ wr = [w \in Writers |-> IdleWriter]
    /\ page = NoDoc
    /\ record = NoDoc
    /\ raw_text = << >>
    /\ cleaned = NoneS
    /\ recleaned = NoneS

\* State when scrapy calls parse_list with the rendered listing page.
Init ==
    /\ pc = "wait_selector"
    /\ posts_limit \in 0..MaxLimit
    /\ seen = {}
    /\ ordered_urls = << >>
    /\ clicks = 0
    /\ stalls = 0
    /\ prev_unique = 0
    /\ prev_anchor_count = 0
    /\ ok = "unset"
    /\ current = << >>
    /\ page_closed = FALSE
    /\ requests = << >>
    /\ attempt = NoAttempt
    /\ discovered = << >>
    /\ stage = "idle"
    /\ item = NoDoc
    /\ fetch = "none"
    /\ collection = {}
    /\ unique_keys = create_index
    /\ writes = 0
    /\ last_write = NoWrite
    /\ written = {}
    /\ passed = {}
    /\ parked = EmptyBag
    /\ XIdle

\* page.wait_for_selector(...): a timeout is swallowed.
WaitForSelector ==
    /\ pc = "wait_selector"
    /\ pc' = "collect"
    /\ UNCHANGED <<posts_limit, seen, ordered_urls, clicks, stalls, prev_unique,
                   prev_anchor_count, ok, current, page_closed, requests>>
    /\ UNCHANGED <<attempt, discovered>>
    /\ UNCHANGED pvars
    /\ UNCHANGED xvars

\* Initial collection (the first for loop), then clicks = 0, stalls = 0.
InitialCollect ==
    /\ pc = "collect"
    /\ \E dom \in DomLists :
         LET urls == collect_urls_from_dom(dom)
             r    == AddNew(seen, ordered_urls, urls, posts_limit)
         IN  /\ current' = urls
             /\ seen' = r.seen
             /\ ordered_urls' = r.ordered
             /\ discovered' = Dedup(discovered \o urls)
    /\ clicks' = 0
    /\ stalls' = 0
    /\ pc' = "loop"
    /\ UNCHANGED <<posts_limit, prev_unique, prev_anchor_count, ok,
                   page_closed, requests>>
    /\ UNCHANGED attempt
    /\ UNCHANGED pvars
    /\ UNCHANGED xvars

\* page.eval_on_selector_all raises during the initial collection: the
\* error leaves parse_list (nothing catches it).
InitialCollectRaise ==
    /\ pc = "collect"
    /\ pc' = "failed"
    /\ UNCHANGED <<posts_limit, seen, ordered_urls, clicks, stalls, prev_unique,
                   prev_anchor_count, ok, current, page_closed, requests>>
    /\ UNCHANGED <<attempt, discovered>>
    /\ UNCHANGED pvars
    /\ UNCHANGED xvars

\* The while test is false: leave the loop.
LoopExit ==
    /\ pc = "loop"
    /\ ~LoopCond(Len(ordered_urls), posts_limit, clicks, stalls)
    /\ pc' = "closing"
    /\ UNCHANGED <<posts_limit, seen, ordered_urls, clicks, stalls, prev_unique,
                   prev_anchor_count, ok, current, page_closed, requests>>
    /\ UNCHANGED <<attempt, discovered>>
    /\ UNCHANGED pvars
    /\ UNCHANGED xvars

\* Top of the loop body: prev_unique is read and parse_list waits for the
\* answer of page.locator(...).count().
BeginRound ==
    /\ pc = "loop"
    /\ LoopCond(Len(ordered_urls), posts_limit, clicks, stalls)
    /\ prev_unique' = Len(ordered_urls)
    /\ pc' = "count"
    /\ UNCHANGED <<posts_limit, seen, ordered_urls, clicks, stalls,
                   prev_anchor_count, ok, current, page_closed, requests>>
    /\ UNCHANGED <<attempt, discovered>>
    /\ UNCHANGED pvars
    /\ UNCHANGED xvars

\* The count arrives: prev_anchor_count is set, click_show_more_and_wait is
\* called and runs to its first await, btn.count().
AnchorCount ==
    /\ pc = "count"
    /\ \E cnt \in 0..MaxDom : prev_anchor_count' = cnt
    /\ attempt' = CallStart
    /\ pc' = "click"
    /\ UNCHANGED <<posts_limit, seen, ordered_urls, clicks, stalls,
                   prev_unique, ok, current, page_closed, requests>>
    /\ UNCHANGED discovered
    /\ UNCHANGED pvars
    /\ UNCHANGED xvars

\* page.locator(...).count() raises at the top of the loop body.
AnchorCountRaise ==
    /\ pc = "count"
    /\ pc' = "failed"
    /\ UNCHANGED <<posts_limit, seen, ordered_urls, clicks, stalls, prev_unique,
                   prev_anchor_count, ok, current, page_closed, requests>>
    /\ UNCHANGED <<attempt, discovered>>
    /\ UNCHANGED pvars
    /\ UNCHANGED xvars

\* The page answers the await click_show_more_and_wait is suspended at, and
\* the call runs to its next await or to its return.
Interact ==
    /\ pc = "click"
    /\ \E e \in Answers(attempt) : attempt' = e
    /\ UNCHANGED <<pc, posts_limit, seen, ordered_urls, clicks, stalls,
                   prev_unique, prev_anchor_count, ok, current, page_closed,
                   requests, discovered>>
    /\ UNCHANGED pvars
    /\ UNCHANGED xvars

\* click_show_more_and_wait returned False: break.
ClickNotOk ==
    /\ pc = "click"
    /\ attempt.at = "returned"
    /\ click_show_more_and_wait(attempt) \in
           {"no_button", "scroll_failed", "click_failed"}
    /\ ok' = click_show_more_and_wait(attempt)
    /\ attempt' = NoAttempt
    /\ pc' = "closing"
    /\ UNCHANGED <<posts_limit, seen, ordered_urls, clicks, stalls, prev_unique,
                   prev_anchor_count, current, page_closed, requests>>
    /\ UNCHANGED discovered
    /\ UNCHANGED pvars
    /\ UNCHANGED xvars

\* btn.count() raised inside click_show_more_and_wait.
ClickRaise ==
    /\ pc = "click"
    /\ attempt.at = "returned"
    /\ click_show_more_and_wait(attempt) = "raise"
    /\ attempt' = NoAttempt
    /\ pc' = "failed"
    /\ UNCHANGED <<posts_limit, seen, ordered_urls, clicks, stalls, prev_unique,
                   prev_anchor_count, ok, current, page_closed, requests>>
    /\ UNCHANGED discovered
    /\ UNCHANGED pvars
    /\ UNCHANGED xvars

\* click_show_more_and_wait returned True: clicks += 1 and parse_list waits
\* for collect_urls_from_dom(). (attempt keeps the record of the round's
\* call until the round ends.)
ClickOk ==
    /\ pc = "click"
    /\ attempt.at = "returned"
    /\ click_show_more_and_wait(attempt) = "clicked"
    /\ ok' = "clicked"
    /\ clicks' = clicks + 1
    /\ pc' = "recollect"
    /\ UNCHANGED <<posts_limit, seen, ordered_urls, stalls, prev_unique,
                   prev_anchor_count, current, page_closed, requests>>
    /\ UNCHANGED <<attempt, discovered>>
    /\ UNCHANGED pvars
    /\ UNCHANGED xvars

\* The re-collection arrives: add the new urls, update stalls, back to the
\* while test.
\* (The timeouts of wait_for_function and wait_for_timeout are swallowed, so
\* any DOM may follow the click.)
RoundOk ==
    /\ pc = "recollect"
    /\ attempt' = NoAttempt
    /\ \E dom \in DomLists :
         LET urls == collect_urls_from_dom(dom)
             r    == AddNew(seen, ordered_urls, urls, posts_limit)
         IN  /\ current' = urls
             /\ seen' = r.seen
             /\ ordered_urls' = r.ordered
             /\ discovered' = Dedup(discovered \o urls)
             /\ stalls' = StallUpdate(stalls, Len(r.ordered), prev_unique)
    /\ pc' = "loop"
    /\ UNCHANGED <<posts_limit, clicks, prev_unique, prev_anchor_count, ok,
                   page_closed, requests>>
    /\ UNCHANGED pvars
    /\ UNCHANGED xvars

\* The click succeeded but page.eval_on_selector_all raises afterwards.
RoundCollectRaise ==
    /\ pc = "recollect"
    /\ attempt' = NoAttempt
    /\ pc' = "failed"
    /\ UNCHANGED <<posts_limit, seen, ordered_urls, clicks, stalls, prev_unique,
                   prev_anchor_count, ok, current, page_closed, requests>>
    /\ UNCHANGED discovered
    /\ UNCHANGED pvars
    /\ UNCHANGED xvars

\* try: await page.close()  except Exception: pass
ClosePage ==
    /\ pc = "closing"
    /\ page_closed' = TRUE
    /\ pc' = "yielding"
    /\ UNCHANGED <<posts_limit, seen, ordered_urls, clicks, stalls, prev_unique,
                   prev_anchor_count, ok, current, requests>>
    /\ UNCHANGED <<attempt, discovered>>
    /\ UNCHANGED pvars
    /\ UNCHANGED xvars

\* for url in ordered_urls[: self.posts_limit]: yield scrapy.Request(url, ...)
\* One pass of the for loop: the next Request comes out and parse_list is
\* suspended at the yield until its consumer asks for more.
YieldRequest ==
    /\ pc = "yielding"
    /\ Len(requests) < Len(Truncate(ordered_urls, posts_limit))
    /\ requests' =
          Append(requests, Truncate(ordered_urls, posts_limit)[Len(requests) + 1])
    /\ UNCHANGED <<pc, posts_limit, seen, ordered_urls, clicks, stalls,
                   prev_unique, prev_anchor_count, ok, current, page_closed>>
    /\ UNCHANGED <<attempt, discovered>>
    /\ UNCHANGED pvars
    /\ UNCHANGED xvars

\* The for loop is exhausted: parse_list returns.
YieldEnd ==
    /\ pc = "yielding"
    /\ Len(requests) = Len(Truncate(ordered_urls, posts_limit))
    /\ pc' = "done"
    /\ UNCHANGED <<posts_limit, seen, ordered_urls, clicks, stalls, prev_unique,
                   prev_anchor_count, ok, current, page_closed, requests>>
    /\ UNCHANGED <<attempt, discovered>>
    /\ UNCHANGED pvars
    /\ UNCHANGED xvars

\* The consumer closes the generator (aclose) while parse_list is suspended
\* at a yield, that of the last Request included: it is never resumed and
\* the urls that remain are not requested.
CloseGenerator ==
    /\ pc = "yielding"
    /\ Len(requests) >= 1
    /\ pc' = "closed"
    /\ UNCHANGED <<posts_limit, seen, ordered_urls, clicks, stalls, prev_unique,
                   prev_anchor_count, ok, current, page_closed, requests>>
    /\ UNCHANGED <<attempt, discovered>>
    /\ UNCHANGED pvars
    /\ UNCHANGED xvars

Next ==
    \/ WaitForSelector
    \/ InitialCollect
    \/ InitialCollectRaise
    \/ LoopExit
    \/ BeginRound
    \/ AnchorCount
    \/ AnchorCountRaise
    \/ Interact
    \/ ClickNotOk
    \/ ClickRaise
    \/ ClickOk
    \/ RoundOk
    \/ RoundCollectRaise
    \/ ClosePage
    \/ YieldRequest
    \/ YieldEnd
    \/ CloseGenerator

Spec == Init /\ [][Next]_vars

\* ------------------------------------------------- the item pipeline run
\* A finished traversal that found the two urls "a" and "b" at once and
\* has yielded both Requests.
HarvestDone ==
    /\ pc = "done"
    /\ posts_limit = 2
    /\ seen = {<<"a">>, <<"b">>}
    /\ ordered_urls = <<<<"a">>, <<"b">>>>
    /\ clicks = 0
    /\ stalls = 0
    /\ prev_unique = 0
    /\ prev_anchor_count = 0
    /\ ok = "unset"
    /\ current = <<<<"a">>, <<"b">>>>
    /\ page_closed = TRUE
    /\ requests = <<<<"a">>, <<"b">>>>
    /\ attempt = NoAttempt
    /\ discovered = <<<<"a">>, <<"b">>>>

\* The item pipeline before its first item: an empty collection with the
\* index of open_spider in place.
PipeIdle ==
    /\ stage = "idle"
    /\ item = NoDoc
    /\ fetch = "none"
    /\ collection = {}
    /\ unique_keys = create_index
    /\ writes = 0
    /\ last_write = NoWrite
    /\ written = {}
    /\ passed = {}
    /\ parked = EmptyBag

\* A traversal that found the two urls "a" and "b" at once and has closed
\* its page: parse_list is about to yield its Requests.
HarvestYielding ==
    /\ pc = "yielding"
    /\ posts_limit = 2
    /\ seen = {<<"a">>, <<"b">>}
    /\ ordered_urls = <<<<"a">>, <<"b">>>>
    /\ clicks = 0
    /\ stalls = 0
    /\ prev_unique = 0
    /\ prev_anchor_count = 0
    /\ ok = "unset"
    /\ current = <<<<"a">>, <<"b">>>>
    /\ page_closed = TRUE
    /\ requests = << >>
    /\ attempt = NoAttempt
    /\ discovered = <<<<"a">>, <<"b">>>>

\* The responses of the Requests yielded so far are parsed and piped while
\* parse_list yields the rest.
PipeInit ==
    /\ HarvestYielding
    /\ PipeIdle
    /\ XIdle

\* parse_article yields the item of one requested url (every field set,
\* header_photo_base64 = None); the url may come up again in a re-run.
\* (At most MaxItems items are written or set aside.)
ParseArticle ==
    /\ stage \in {"idle", "stored", "photo_error", "mongo_error"}
    /\ writes + BagCardinality(parked) < MaxItems
    /\ \E i \in 1..Len(requests), t \in Titles, ph \in PhotoUrls :
         item' = [title |-> t, source_url |-> requests[i],
                  header_photo_url |-> ph, header_photo_base64 |-> None]
    /\ stage' = Chain[1]
    /\ fetch' = "none"
    /\ passed' = {}
    /\ UNCHANGED <<collection, unique_keys, writes, last_write, written,
                   parked>>
    /\ UNCHANGED hvars
    /\ UNCHANGED xvars

\* PhotoDownloaderPipeline.process_item (priority 100) is called. Without
\* a photo url it returns at once; with one it reaches
\* `await self._download_photo_to_base64(...)` and is suspended there.
PhotoStage ==
    /\ stage = "photo"
    /\ IF Truthy(item.header_photo_url)
       THEN /\ stage' = "photo_wait"
            /\ UNCHANGED <<item, fetch, passed>>
       ELSE LET r == PhotoProcessItem(item, "none")
            IN  /\ item' = r.item
                /\ fetch' = "none"
                /\ stage' = IF r.raised = "no" THEN StageAfter("photo")
                                               ELSE "photo_error"
                /\ passed' = IF r.raised = "no" THEN passed \cup {"photo"}
                                                ELSE passed
    /\ UNCHANGED <<collection, unique_keys, writes, last_write, written,
                   parked>>
    /\ UNCHANGED hvars
    /\ UNCHANGED xvars

\* session.get answers: a response of status 200 goes on to
\* `await response.read()`; any other status returns "" and an error leaves
\* the function, both through the exit of the async with block.
PhotoGet ==
    /\ stage = "photo_wait"
    /\ \E g \in GetAnswers :
         /\ fetch' = g
         /\ stage' = IF g = "status_200" THEN "photo_read" ELSE "photo_close"
    /\ UNCHANGED <<item, collection, unique_keys, writes, last_write, written,
                   passed, parked>>
    /\ UNCHANGED hvars
    /\ UNCHANGED xvars

\* response.read answers (or fails), the image is compressed and encoded
\* (or compress_image raises), and the async with block is left.
PhotoRead ==
    /\ stage = "photo_read"
    /\ \E r \in ReadAnswers : fetch' = r
    /\ stage' = "photo_close"
    /\ UNCHANGED <<item, collection, unique_keys, writes, last_write, written,
                   passed, parked>>
    /\ UNCHANGED hvars
    /\ UNCHANGED xvars

\* The session is closed and process_item runs to its end: only now is the
\* item written.
PhotoFetched ==
    /\ stage = "photo_close"
    /\ LET r == PhotoProcessItem(item, fetch)
       IN  /\ item' = r.item
           /\ stage' = IF r.raised = "no" THEN StageAfter("photo")
                                          ELSE "photo_error"
           /\ passed' = IF r.raised = "no" THEN passed \cup {"photo"}
                                           ELSE passed
    /\ UNCHANGED <<fetch, collection, unique_keys, writes, last_write,
                   written, parked>>
    /\ UNCHANGED hvars
    /\ UNCHANGED xvars

\* While process_item is suspended at one of its awaits the event loop
\* turns to other work: the waiting item is set aside.
Park ==
    /\ stage \in PhotoWaits
    /\ BagCardinality(parked) < MaxParked
    /\ parked' = parked (+) SetToBag({[item |-> item, passed |-> passed,
                                        stage |-> stage, fetch |-> fetch]})
    /\ stage' = "idle"
    /\ item' = NoDoc
    /\ passed' = {}
    /\ fetch' = "none"
    /\ UNCHANGED <<collection, unique_keys, writes, last_write, written>>
    /\ UNCHANGED hvars
    /\ UNCHANGED xvars

\* The event loop comes back to a waiting item.
Resume ==
    /\ stage \in {"idle", "stored", "photo_error", "mongo_error"}
    /\ \E p \in BagToSet(parked) :
         /\ item' = p.item
         /\ passed' = p.passed
         /\ stage' = p.stage
         /\ fetch' = p.fetch
         /\ parked' = parked (-) SetToBag({p})
    /\ UNCHANGED <<collection, unique_keys, writes, last_write, written>>
    /\ UNCHANGED hvars
    /\ UNCHANGED xvars

\* MongoPipeline.process_item (priority 200).
MongoStage ==
    /\ stage = "mongo"
    /\ LET r == MongoProcessItem(collection, item, writes + 1, writes + 1,
                                 unique_keys)
       IN  /\ collection' = r.coll
           /\ last_write' = [doc |-> r.doc, conflict |-> r.conflict,
                             raised |-> r.raised]
           /\ stage' = IF r.raised = "no" THEN StageAfter("mongo")
                                          ELSE "mongo_error"
           /\ passed' = IF r.raised = "no" THEN passed \cup {"mongo"}
                                           ELSE passed
    /\ writes' = writes + 1
    /\ written' = written \cup {item.source_url}
    /\ UNCHANGED <<item, fetch, unique_keys, parked>>
    /\ UNCHANGED hvars
    /\ UNCHANGED xvars

PipeNext ==
    \/ YieldRequest
    \/ YieldEnd
    \/ CloseGenerator
    \/ ParseArticle
    \/ PhotoStage
    \/ PhotoGet
    \/ PhotoRead
    \/ PhotoFetched
    \/ Park
    \/ Resume
    \/ MongoStage

PipeSpec == PipeInit /\ [][PipeNext]_vars

\* ------------------------------------------ writers on one collection
\* Several crawler processes (re-runs started side by side) store into the
\* same collection: between the insert_one of one process and its recovery
\* update_one the other processes take their steps.
ConcInit ==
    /\ HarvestDone
    /\ PipeIdle
    /\ XIdle

\* process_item, up to the write: doc = dict(item), the two setdefault
\* calls, parsed_at_utc.
WriterBegin(w) ==
    /\ wr[w].pc = "idle"
    /\ \E i \in 1..Len(requests), t \in Titles :
         LET it   == [title |-> t, source_url |-> requests[i],
                      header_photo_url |-> None, header_photo_base64 |-> None]
             doc0 == Merge([header_photo_url |-> None,
                            header_photo_base64 |-> None], it)
             doc  == Merge(doc0, [parsed_at_utc |-> writes + 1])
         IN  wr' = [wr EXCEPT ![w] = [pc |-> "insert", doc |-> doc]]
    /\ writes' = writes + 1
    /\ UNCHANGED <<stage, item, fetch, collection, unique_keys, last_write,
                   written, passed, parked>>
    /\ UNCHANGED <<page, record, raw_text, cleaned, recleaned>>
    /\ UNCHANGED hvars

\* try: self.collection.insert_one(doc)
WriterInsert(w) ==
    /\ wr[w].pc = "insert"
    /\ LET ins == insert_one(collection, wr[w].doc, wr[w].doc.parsed_at_utc,
                             unique_keys)
       IN  /\ collection' = ins.coll
           /\ wr' = [wr EXCEPT ![w] =
                        [pc  |-> IF ins.raised = "DuplicateKeyError"
                                 THEN "update" ELSE "done",
                         doc |-> ins.doc]]
    /\ written' = written \cup {wr[w].doc.source_url}
    /\ UNCHANGED <<stage, item, fetch, unique_keys, writes, last_write, passed,
                   parked>>
    /\ UNCHANGED <<page, record, raw_text, cleaned, recleaned>>
    /\ UNCHANGED hvars

\* except DuplicateKeyError: self.collection.update_one(..., upsert=True)
WriterUpdate(w) ==
    /\ wr[w].pc = "update"
    /\ LET upd == update_one(collection, wr[w].doc.source_url, wr[w].doc)
       IN  /\ collection' = upd.coll
           /\ wr' = [wr EXCEPT ![w].pc =
                        IF upd.raised = "no" THEN "done" ELSE "error"]
    /\ UNCHANGED <<stage, item, fetch, unique_keys, writes, last_write,
                   written, passed, parked>>
    /\ UNCHANGED <<page, record, raw_text, cleaned, recleaned>>
    /\ UNCHANGED hvars

ConcNext ==
    \E w \in Writers :
        \/ WriterBegin(w)
        \/ WriterInsert(w)
        \/ WriterUpdate(w)

ConcSpec == ConcInit /\ [][ConcNext]_vars

\* The awaits of click_show_more_and_wait that carry a timeout: loc.click
\* (line 65), scroll_into_view_if_needed (93), btn.click (101),
\* wait_for_function (107-110) and wait_for_timeout (118).
TimedAwaits ==
    {"loc.click", "scroll_into_view_if_needed", "btn.click",
     "wait_for_function", "wait_for_timeout"}

\* The steps of parse_list that wait for nothing unbounded: the selector
\* wait has a timeout (line 128), the while test, the top of the loop body
\* and the code after the return of click_show_more_and_wait need no page,
\* the timed awaits end by themselves, and scrapy keeps asking the
\* generator for its next Request.
LocalStep ==
    \/ WaitForSelector
    \/ LoopExit
    \/ BeginRound
    \/ (attempt.at \in TimedAwaits /\ Interact)
    \/ ClickNotOk
    \/ ClickRaise
    \/ ClickOk
    \/ YieldRequest
    \/ YieldEnd

\* The steps that end only when a page call without a timeout argument has
\* answered: eval_on_selector_all (line 72), locator.count (146), btn.count
\* (86), the overlay probes (51, 64), window.scrollTo (96), page.close (171).
PageStep ==
    \/ InitialCollect
    \/ InitialCollectRaise
    \/ AnchorCount
    \/ AnchorCountRaise
    \/ (attempt.at \notin TimedAwaits /\ Interact)
    \/ RoundOk
    \/ RoundCollectRaise
    \/ ClosePage

\* The coroutine is resumed whenever its awaited call ends. Only the steps
\* of LocalStep are sure to come; a page call without a timeout may never
\* answer, and then parse_list stays suspended at it.
LiveSpec == Init /\ [][Next]_vars /\ WF_vars(LocalStep)

\* ------------------------------------------------- one article response
\* scrapy calls parse_article with an article response; the harvest and the
\* item pipeline are at rest.
ExtractInit ==
    /\ HarvestDone
    /\ PipeIdle
    /\ wr = [w \in Writers |-> IdleWriter]
    /\ page \in Pages
    /\ record = NoDoc
    /\ raw_text = << >>
    /\ cleaned = NoneS
    /\ recleaned = NoneS

\* parse_article(response) runs and yields its item.
ParseResponse ==
    /\ page # NoDoc
    /\ record = NoDoc
    /\ record' = parse_article(page)
    /\ UNCHANGED <<wr, page, raw_text, cleaned, recleaned>>
    /\ UNCHANGED hvars
    /\ UNCHANGED pvars

ExtractNext == ParseResponse

ExtractSpec == ExtractInit /\ [][ExtractNext]_vars

\* ------------------------------------------------- clean_text on its own
\* clean_text is about to be applied to one extracted string.
CleanInit ==
    /\ HarvestDone
    /\ PipeIdle
    /\ wr = [w \in Writers |-> IdleWriter]
    /\ page = NoDoc
    /\ record = NoDoc
    /\ raw_text \in Texts
    /\ cleaned = NoneS
    /\ recleaned = NoneS

\* cleaned = clean_text(raw_text)
CleanOnce ==
    /\ cleaned = NoneS
    /\ cleaned' = clean_text(raw_text)
    /\ UNCHANGED <<wr, page, record, raw_text, recleaned>>
    /\ UNCHANGED hvars
    /\ UNCHANGED pvars

\* recleaned = clean_text(cleaned)
CleanTwice ==
    /\ cleaned # NoneS
    /\ recleaned = NoneS
    /\ recleaned' = clean_text(cleaned)
    /\ UNCHANGED <<wr, page, record, raw_text, cleaned>>
    /\ UNCHANGED hvars
    /\ UNCHANGED pvars

CleanNext ==
    \/ CleanOnce
    \/ CleanTwice

CleanSpec == CleanInit /\ [][CleanNext]_vars

\* ================================================================ claims
SetOf(q) == {q[i] : i \in 1..Len(q)}

\* C1: in every state of a listing traversal ordered_urls holds no url
\* twice: its length equals the number of its distinct elements.
C1_NoDuplicates == Len(ordered_urls) = Cardinality(SetOf(ordered_urls))

\* C1 witness: a round re-collected a DOM that shows one location twice
\* (the same url with and without a query string), with two urls harvested.
C1_Witness ==
    /\ clicks >= 1
    /\ Len(ordered_urls) = 2
    /\ Len(current) = 2
    /\ current[1] = current[2]

\* C2 as stated: the harvest returns at most posts_limit urls, and fewer
\* only if the button was absent or the click or stall bound was reached.
C2_FewerOnlyIfAbsentOrBound ==
    pc = "done" =>
        /\ Len(requests) <= posts_limit
        /\ Len(requests) < posts_limit =>
              \/ ok = "no_button"
              \/ clicks >= MAX_SHOW_MORE_CLICKS
              \/ stalls >= STALL_LIMIT

\* C2 amended: the harvest returns at most posts_limit urls, and fewer only
\* if the button was absent, the interaction could not be performed (the
\* scroll and its fallback, or the click, raised), or the click or stall
\* bound was reached.
C2_FewerOnlyIfNotClickedOrBound ==
    pc = "done" =>
        /\ Len(requests) <= posts_limit
        /\ Len(requests) < posts_limit =>
              \/ ok \in {"no_button", "scroll_failed", "click_failed"}
              \/ clicks >= MAX_SHOW_MORE_CLICKS
              \/ stalls >= STALL_LIMIT

\* C2 witness: a traversal ended short of the target because the click on a
\* present button raised, with both bounds still unreached.
C2_Witness ==
    /\ pc = "done"
    /\ Len(requests) < posts_limit
    /\ ok = "click_failed"
    /\ clicks >= 1
    /\ clicks < MAX_SHOW_MORE_CLICKS
    /\ stalls < STALL_LIMIT

\* C3: whenever the traversal has stopped collecting (it yields, is done,
\* or ended by an error of a DOM query), page.close() has been called.
C3_PageClosedOnEveryExit ==
    pc \in {"yielding", "done", "closed", "failed"} => page_closed

\* C4: after a write that hit the unique index, the stored document of that
\* source_url is exactly the newest document (its fields and its timestamp),
\* with nothing of the older one left.
C4_ConflictReplacesDocument ==
    last_write.conflict =>
        \A d \in collection :
            d.source_url = last_write.doc.source_url
                => Body(d) = last_write.doc

\* C5: the store holds exactly one document for every source_url that was
\* ever given to MongoPipeline.process_item.
C5_OneDocumentPerUrl ==
    \A u \in written :
        Cardinality({d \in collection : d.source_url = u}) = 1

\* C5 witness: a source_url was written a second time (the insert hit the
\* unique index) while another url is stored as well.
C5_Witness ==
    /\ last_write.conflict
    /\ Cardinality(written) = 2
    /\ writes = 3

\* C6: when the photo url is present and the fetch gives a status other
\* than 200, header_photo_base64 is None and header_photo_url is kept.
C6_Non200GivesNone ==
    (fetch = "not_200" /\ stage \notin PhotoWaits) =>
        /\ item.header_photo_base64 = None
        /\ item.header_photo_url = "img"

\* C7: every failure of the photo stage leaves header_photo_base64 = None
\* and the item is still returned (it goes on to MongoPipeline).
C7_FailureDegradesToNoPhoto ==
    (fetch \in FetchOutcomes \ {"ok"} /\ stage \notin PhotoWaits) =>
        /\ stage # "photo_error"
        /\ item.header_photo_base64 = None

\* C8: when the fetch raises InvalidUrlClientError, process_item returns the
\* item with header_photo_url and header_photo_base64 set to None and every
\* other field as it was.
C8_InvalidUrlClearsBoth ==
    [][(/\ stage = "photo_close"
        /\ fetch = "invalid_url"
        /\ stage' \notin {"photo_close", "idle"}) =>
          /\ stage' = "mongo"
          /\ item' = [item EXCEPT !.header_photo_url = None,
                                  !.header_photo_base64 = None]
          /\ item.header_photo_url # None]_vars

\* C8 witness: an item with a photo url went through the photo stage with
\* an invalid-url fetch and was handed on.
C8_Witness ==
    /\ stage = "mongo"
    /\ fetch = "invalid_url"
    /\ item.title = "t2"

\* C9: a completed round (click, re-collection) that adds no url raises
\* stalls by exactly 1, one that adds a url sets stalls to 0; a round whose
\* collected links are the set of the round before raises stalls by 1.
C9_StallRule ==
    [][(pc = "recollect" /\ pc' = "loop") =>
          /\ Len(ordered_urls') = Len(ordered_urls) => stalls' = stalls + 1
          /\ Len(ordered_urls') > Len(ordered_urls) => stalls' = 0
          /\ SetOf(current') = SetOf(current) => stalls' = stalls + 1]_vars

\* C9 witness: after three rounds stalls is 1 with one url harvested, so a
\* stalled round, a round that reset the counter and a stalled round passed.
C9_Witness ==
    /\ pc = "loop"
    /\ clicks = 3
    /\ stalls = 1
    /\ Len(ordered_urls) = 1
    /\ current = ordered_urls

\* C10: every traversal that has entered the expansion loop leaves it
\* again, whatever the page does: it goes on to Done (or is ended by the
\* error of a DOM query) and does not stay in the loop for ever.
C10_LoopReachesDone ==
    (pc = "loop") ~> (pc \notin {"loop", "count", "click", "recollect"})

\* C11: whenever MongoPipeline.process_item runs for an item, the photo
\* stage has already returned that item, and the document it writes carries
\* the photo fields as the photo stage left them.
C11_PhotoBeforeStore ==
    [][writes' # writes =>
          /\ "photo" \in passed
          /\ last_write'.doc.header_photo_url = item.header_photo_url
          /\ last_write'.doc.header_photo_base64 = item.header_photo_base64]_vars

\* C11 witness: a stored document carries the photo the photo stage encoded.
C11_Witness ==
    /\ stage = "stored"
    /\ fetch = "ok"
    /\ last_write.raised = "no"
    /\ \E d \in collection :
         /\ Body(d) = last_write.doc
         /\ d.header_photo_base64 = "b64:jpeg"

\* C12: when concurrent writers of one source_url have all finished, none
\* ended in an error, the store holds exactly one document for the key, and
\* that document is in full the document of one writer.
C12_ConcurrentWritesSafe ==
    (\A w \in Writers : wr[w].pc \in {"done", "error"}) =>
        /\ \A w \in Writers : wr[w].pc = "done"
        /\ \A u \in written :
              /\ Cardinality({d \in collection : d.source_url = u}) = 1
              /\ \A d \in collection :
                    d.source_url = u =>
                       \E w \in Writers : Body(d) = Body(wr[w].doc)

\* ------------------------------------------------------------------ C13
IsPrefix(p, q) == Len(p) <= Len(q) /\ SubSeq(q, 1, Len(p)) = p

FirstN(q, n) == SubSeq(q, 1, IF n < Len(q) THEN n ELSE Len(q))

\* C13: the harvest is in discovery order. ordered_urls is always a prefix
\* of the first-occurrence-deduplicated concatenation of the DOM link lists
\* collected so far (the initial one and one per performed round); the
\* requests come out in that order and, once parse_list has returned, are
\* the first posts_limit entries of it.
C13_DiscoveryOrder ==
    /\ IsPrefix(ordered_urls, discovered)
    /\ IsPrefix(requests, FirstN(discovered, posts_limit))
    /\ pc = "done" => requests = FirstN(discovered, posts_limit)

\* C13 witness: the initial DOM gave one link, one round was performed and
\* its DOM showed that link again followed by a new one; with a target of
\* two both are returned, the initial one first.
C13_Witness ==
    /\ pc = "done"
    /\ clicks = 1
    /\ prev_unique = 1
    /\ posts_limit = 2
    /\ Len(requests) = 2
    /\ requests[1] # requests[2]
    /\ current = requests
    /\ discovered = requests

\* ------------------------------------------------------------------ C14
\* A timeout met by the call under way: of scroll_into_view_if_needed, of
\* btn.click, or of the wait for the anchor count to change.
TimedOut(e) == e.scroll = "err" \/ e.click = "err" \/ e.wait = "timeout"

\* The step in which parse_list acts on the outcome of the call.
RoundEnds == pc = "click" /\ attempt.at = "returned" /\ pc' # "click"

\* The step in which the re-collection of a performed click arrives (or
\* raises).
Recollected == pc = "recollect" /\ pc' # "recollect"

\* C14 as stated: after a timeout of the scroll, the click or the DOM-change
\* wait the round still re-collects the links and applies the stall rule,
\* and the traversal does not end (the page is not closed) on that step.
C14_TimeoutIsNoNewContent ==
    /\ [][(RoundEnds /\ TimedOut(attempt)) =>
             (pc' = "recollect" /\ clicks' = clicks + 1)]_vars
    /\ [][(Recollected /\ TimedOut(attempt) /\ pc' = "loop") =>
             stalls' = (IF Len(ordered_urls') = prev_unique
                        THEN stalls + 1 ELSE 0)]_vars

\* C14 amended: a timeout after which the click was still performed (the
\* DOM-change wait timed out, or the scroll timed out and the click went
\* through) counts the round, re-collects and applies the stall rule; a
\* timeout that keeps the click from being performed ends the traversal
\* without an error and without losing a harvested url.
C14_TimeoutRecollectsOrEnds ==
    /\ [][(RoundEnds /\ TimedOut(attempt)) =>
             IF attempt.click = "ok"
             THEN /\ pc' = "recollect"
                  /\ clicks' = clicks + 1
                  /\ UNCHANGED <<ordered_urls, stalls>>
             ELSE /\ pc' = "closing"
                  /\ UNCHANGED <<ordered_urls, clicks, stalls>>]_vars
    /\ [][(Recollected /\ TimedOut(attempt)) =>
             /\ pc' \in {"loop", "failed"}
             /\ UNCHANGED clicks
             /\ pc' = "loop" =>
                   stalls' = (IF Len(ordered_urls') = prev_unique
                              THEN stalls + 1 ELSE 0)]_vars

\* C14 witness: in a second round the click was performed and the wait for
\* the anchor count timed out, after a first round that added nothing.
C14_Witness ==
    /\ pc = "recollect"
    /\ attempt.click = "ok"
    /\ attempt.wait = "timeout"
    /\ clicks = 2
    /\ stalls = 1

\* ------------------------------------------------------------------ C15
NoRepeats(q) == \A i, j \in 1..Len(q) : q[i] = q[j] => i = j

\* The entries a page offers for authors, in source order: the pieces of the
\* author meta content when the code takes that source, the text nodes of
\* the author-labeled regions otherwise.
AuthorEntries(p) ==
    IF ~Falsy(p.author_meta)
    THEN CleanAll(SplitOn(p.author_meta, {",", ";", "&"}))
    ELSE CleanAll(p.author_texts)

\* C15: the authors of every extracted record hold no entry twice and are
\* the source entries in order of first occurrence, whichever source
\* supplied them.
C15_AuthorsDeduplicated ==
    record # NoDoc =>
        /\ NoRepeats(record.authors)
        /\ record.authors = Dedup(AuthorEntries(page))

\* ------------------------------------------------------------------ C16
\* The value the fallback chain of a text field should give: the first of
\* the two sources that is non-empty after whitespace normalization.
FirstNonEmpty(prim, sec) ==
    IF clean_text(prim) # << >> THEN clean_text(prim) ELSE clean_text(sec)

\* The same for a sequence field, on the entries of the two sources.
FirstNonEmptyList(prim, sec) ==
    IF CleanAll(prim) # << >> THEN CleanAll(prim) ELSE CleanAll(sec)

\* C16: title, description, publication_datetime, keywords and authors take
\* the secondary source whenever the primary one is absent, empty, empty
\* after whitespace normalization or without a non-empty entry after
\* splitting; with both empty the field is "" or [], never None.
C16_FallbackWhenPrimaryEmpty ==
    record # NoDoc =>
        /\ record.title = FirstNonEmpty(normalize_space(page.h1),
                                        page.og_title)
        /\ record.description = FirstNonEmpty(page.meta_description,
                                              page.og_description)
        /\ record.publication_datetime =
              FirstNonEmpty(page.published_time, page.time_datetime)
        /\ SetOf(record.keywords) =
              SetOf(FirstNonEmptyList(
                        SplitOn(Or(page.keywords_meta, << >>), {","}),
                        page.tag_texts))
        /\ SetOf(record.authors) =
              SetOf(FirstNonEmptyList(
                        SplitOn(Or(page.author_meta, << >>), {",", ";", "&"}),
                        page.author_texts))
        /\ \A f \in {"title", "description", "publication_datetime"} :
              record[f] # NoneS

\* ------------------------------------------------------------------ C17
\* The state right after an initial collection that found at least
\* posts_limit unique urls: at the while test, no round begun yet.
InitialEnough ==
    /\ pc = "loop"
    /\ clicks = 0
    /\ ok = "unset"
    /\ Len(ordered_urls) >= posts_limit

\* C17: when the initial collection already gives posts_limit unique urls
\* the loop body is never entered: the next step closes the page with no
\* call of click_show_more_and_wait, clicks stays 0, and the requests
\* yielded are exactly the first posts_limit urls discovered.
C17_EnoughAtStartGoesToDone ==
    /\ [][InitialEnough =>
             /\ pc' = "closing"
             /\ UNCHANGED <<ordered_urls, discovered, clicks, ok, attempt>>]_vars
    /\ [](/\ pc \in {"closing", "yielding", "done"}
           /\ ok = "unset"
           /\ Len(ordered_urls) >= posts_limit
           => /\ clicks = 0
              /\ attempt = NoAttempt
              /\ pc = "done" => requests = FirstN(discovered, posts_limit))

\* C17 witness: the initial DOM showed two urls for a target of one; the
\* traversal is done with no click and the first url alone is returned.
C17_Witness ==
    /\ pc = "done"
    /\ clicks = 0
    /\ ok = "unset"
    /\ posts_limit = 1
    /\ Len(discovered) = 2
    /\ requests = <<discovered[1]>>

\* ------------------------------------------------------------------ C18
\* The call under way met a failure in the overlay dismissal, in the scroll
\* into view or in the click.
InteractionFailed(e) ==
    e.overlay = "err" \/ e.scroll = "err" \/ e.click = "err"

\* C18: a failure of the overlay dismissal, the scroll or the click never
\* aborts the traversal. The step that acts on such a call either goes on
\* to the re-collection of a performed click (the only error that can then
\* leave parse_list is that of the DOM query) or ends the loop normally;
\* the urls harvested before stay, in place, within what will be yielded.
C18_InteractionFailureSwallowed ==
    /\ [][(RoundEnds /\ InteractionFailed(attempt)) =>
             /\ pc' # "failed"
             /\ attempt.click = "ok" =>
                   (pc' = "recollect" /\ clicks' = clicks + 1)
             /\ attempt.click # "ok" => pc' = "closing"
             /\ UNCHANGED ordered_urls]_vars
    /\ [][(Recollected /\ InteractionFailed(attempt)) =>
             /\ IsPrefix(ordered_urls, ordered_urls')
             /\ pc' # "failed" =>
                   IsPrefix(ordered_urls,
                            FirstN(ordered_urls', posts_limit))]_vars

\* C18 witness: with one url harvested the click of the first round failed;
\* the traversal is done and that url was yielded.
C18_Witness ==
    /\ pc = "done"
    /\ ok = "click_failed"
    /\ clicks = 0
    /\ posts_limit = 2
    /\ Len(requests) = 1
    /\ requests = discovered

\* ------------------------------------------------------------------ C20
\* C20: in every state of a traversal seen is the set of the elements of
\* ordered_urls and, for posts_limit >= 1, ordered_urls is no longer than
\* posts_limit; every step leaves the old ordered_urls as a prefix of the
\* new one, so no harvested url is ever removed or moved.
C20_SeenMirrorsOrderedAppendOnly ==
    /\ [](seen = SetOf(ordered_urls))
    /\ [](posts_limit >= 1 => Len(ordered_urls) <= posts_limit)
    /\ [][IsPrefix(ordered_urls, ordered_urls')]_vars

\* C20 witness: a round's DOM showed two new urls when only one more was
\* wanted; ordered_urls grew by the first of them and stands at the limit.
C20_Witness ==
    /\ clicks >= 1
    /\ posts_limit = 2
    /\ Len(ordered_urls) = 2
    /\ Len(discovered) = 3
    /\ seen = SetOf(ordered_urls)

\* ------------------------------------------------------------------ C19
\* No leading, trailing or doubled whitespace, and no whitespace character
\* other than the space.
Normalized(s) ==
    /\ s # << >> => (~IsSpace(s[1]) /\ ~IsSpace(s[Len(s)]))
    /\ \A i \in 1..Len(s) : IsSpace(s[i]) => s[i] = " "
    /\ \A i \in 1..(Len(s) - 1) : ~(IsSpace(s[i]) /\ IsSpace(s[i + 1]))

\* C19: clean_text is idempotent, clean_text(clean_text(s)) = clean_text(s)
\* for every string s of the bounded alphabet (and for None), and its
\* result has no leading, trailing or doubled whitespace.
C19_CleanTextIdempotent ==
    /\ cleaned # NoneS => Normalized(cleaned)
    /\ recleaned # NoneS => recleaned = cleaned

\* C19 witness: a string with a run of two different whitespace characters
\* inside and whitespace in front was cleaned twice.
C19_Witness ==
    /\ raw_text = <<"", "a", " ", "\n", "b">>
    /\ cleaned = <<"a", " ", "b">>
    /\ recleaned = cleaned

\* ------------------------------------------------------------------ C21
\* C21: in every state 0 <= stalls <= clicks <= MAX_SHOW_MORE_CLICKS and
\* stalls <= STALL_LIMIT; clicks changes only by +1, and only in the step
\* that acts on a call whose click was performed; the step that acts on a
\* call that found no control, or whose scroll or click failed, changes
\* none of clicks, stalls and ordered_urls.
C21_CountersBounded ==
    /\ [](0 <= stalls /\ stalls <= clicks /\ stalls <= STALL_LIMIT)
    /\ [](clicks <= MAX_SHOW_MORE_CLICKS)
    /\ [][clicks' # clicks =>
             (RoundEnds /\ attempt.click = "ok" /\ clicks' = clicks + 1)]_vars
    /\ [][(RoundEnds /\ attempt.click = "ok") => clicks' = clicks + 1]_vars
    /\ [][(RoundEnds /\ attempt.btn = "present" /\ attempt.click # "ok")
             => UNCHANGED <<clicks, stalls, ordered_urls>>]_vars
    /\ [][(RoundEnds /\ attempt.btn = "absent")
             => UNCHANGED <<clicks, stalls, ordered_urls>>]_vars

\* C21 witness: one round was performed and added nothing (stalls = clicks
\* = 1), then the control was gone: the loop ended with both counters and
\* ordered_urls as that round left them.
C21_Witness ==
    /\ pc = "closing"
    /\ ok = "no_button"
    /\ clicks = 1
    /\ stalls = 1
    /\ Len(ordered_urls) = 1
    /\ Len(ordered_urls) < posts_limit
====
